---- MODULE Spec2Model ----
(***************************************************************************)
(* A model of cfg.py: the CFG value (initial symbol, productions,          *)
(* nonterminals, terminals), its FIRST / FIRST_NT / FOLLOW routines with   *)
(* their shared default-argument "visited" sets, the LL(1) validator, the  *)
(* parse table builder, the predictive parser (a generator, one step per   *)
(* yield) and the two grammar transforms.                                  *)
(*                                                                         *)
(* A Python str is a sequence of one-character strings, so that            *)
(* str.split(), indexing (production[0]) and the character loop of         *)
(* epsilon_free are modelled by what they do.                              *)
(***************************************************************************)
EXTENDS Integers, Sequences, FiniteSets, TLC

\* ------------------------------------------------------------------ bounds

\* Most alternatives an input grammar has, over all its nonterminals.
MaxAlts == 3
\* Longest input sentence (in tokens) handed to parse().
MaxInputLen == 2
\* The parser's stack is followed up to this depth; a deeper stack means an
\* unbounded run of expansions and is recorded as pc = "overflow".
MaxStack == 2 * (MaxInputLen + 2)

\* ----------------------------------------------------------------- strings

Amp == <<"&">>
Dollar == <<"$">>
sS == <<"S">>
sA == <<"A">>
sa == <<"a">>
sab == <<"a", "b">>
sPrime == <<"'">>

\* str.split(): the whitespace-delimited tokens of s, from position i on,
\* cur being the token read so far.
RECURSIVE split_from(_, _, _)
split_from(s, i, cur) ==
    IF i > Len(s)
    THEN (IF cur = <<>> THEN <<>> ELSE <<cur>>)
    ELSE IF s[i] = " "
         THEN (IF cur = <<>> THEN split_from(s, i + 1, <<>>)
                             ELSE <<cur>> \o split_from(s, i + 1, <<>>))
         ELSE split_from(s, i + 1, Append(cur, s[i]))

split(s) == split_from(s, 1, <<>>)

\* ' '.join(tokens)
RECURSIVE join(_)
join(toks) ==
    IF toks = <<>> THEN <<>>
    ELSE IF Len(toks) = 1 THEN toks[1]
    ELSE toks[1] \o <<" ">> \o join(Tail(toks))

Range(f) == {f[i] : i \in DOMAIN f}

\* The sequences that list the set xs once each, in every order: the orders
\* in which Python may iterate a set.
RECURSIVE Orders(_)
Orders(xs) ==
    IF xs = {} THEN {<<>>}
    ELSE UNION {{<<x>> \o rest : rest \in Orders(xs \ {x})} : x \in xs}

\* One fixed order (used where the result does not depend on the order).
RECURSIVE SomeOrder(_)
SomeOrder(xs) ==
    IF xs = {} THEN <<>>
    ELSE LET x == CHOOSE y \in xs : TRUE IN <<x>> \o SomeOrder(xs \ {x})

\* ------------------------------------------------------------ CFG.create

\* The symbols of a dict of productions, over the keys in ks.
SymbolsOf(productions, ks) ==
    UNION {UNION {Range(split(p)) : p \in productions[k]} : k \in ks}

create(initial_symbol, keys, productions) ==
    LET nonterminals == Range(keys) IN
    [initial_symbol |-> initial_symbol,
     keys |-> keys,
     productions |-> productions,
     nonterminals |-> nonterminals,
     terminals |-> {symbol \in SymbolsOf(productions, nonterminals) :
                        symbol # Amp /\ symbol \notin nonterminals}]

\* ------------------------------------------------------------- CFG.first

\* A call returns [res, vs]: its result and the visited sets as it leaves them
\* (the three default arguments, shared by every call).
NoVisited == [first |-> {}, first_nonterminal |-> {}, follow |-> {}]

\* The element a loop over the set xs takes next.
Pick(xs) == CHOOSE x \in xs : TRUE

\* acc |= r.res, for the result r of a nested call
union_into(acc, r) == [res |-> acc \cup r.res, vs |-> r.vs]

\* A return that forgets to take the sentence out of the visited set.
first_return_leak(res, sentence, vs) == [res |-> res, vs |-> vs]

\* A return of first(): the sentence leaves the shared visited set.
first_return(res, sentence, vs) ==
    [res |-> res, vs |-> [vs EXCEPT !.first = @ \ {sentence}]]

RECURSIVE first(_, _, _), first_scan(_, _, _, _), first_alts(_, _, _)

\* for x in self.productions[y]: if x not in visited: first_y |= self.first(x)
\* (fy is [res |-> first_y, vs])
first_alts(g, xs, fy) ==
    IF xs = {} THEN fy
    ELSE IF Pick(xs) \in fy.vs.first
         THEN first_alts(g, xs \ {Pick(xs)}, fy)
         ELSE first_alts(g, xs \ {Pick(xs)},
                         union_into(fy.res, first(g, Pick(xs), fy.vs)))

\* first |= (first_y - {'&'}); if '&' not in first_y: return first
first_symbol(g, sentence, ys, acc, fy) ==
    IF Amp \notin fy.res
    THEN first_return(acc \cup (fy.res \ {Amp}), sentence, fy.vs)
    ELSE first_scan(g, sentence, Tail(ys),
                    [res |-> acc \cup (fy.res \ {Amp}), vs |-> fy.vs])

\* for y in sentence.split(): ...   (r is [res |-> first, vs])
first_scan(g, sentence, ys, r) ==
    IF ys = <<>>
    THEN first_return(r.res \cup {Amp}, sentence, r.vs)
    ELSE IF Head(ys) \notin g.nonterminals
         THEN first_return(r.res \cup {Head(ys)}, sentence, r.vs)
         ELSE first_symbol(g, sentence, ys, r.res,
                  first_alts(g, g.productions[Head(ys)], [res |-> {}, vs |-> r.vs]))

first(g, sentence, vs) ==
    first_scan(g, sentence, split(sentence),
               [res |-> {}, vs |-> [vs EXCEPT !.first = @ \cup {sentence}]])

\* ------------------------------------------------ CFG.first_nonterminal

RECURSIVE first_nonterminal(_, _, _), fn_production(_, _, _), fn_productions(_, _, _)

\* if y in self.nonterminals: first |= {y}
fn_seen(g, y, acc) == IF y \in g.nonterminals THEN acc \cup {y} ELSE acc

\* first |= (first_y - {'&'}); if '&' not in first_y: break
fn_symbol(g, ys, acc, first_y) ==
    IF Amp \notin first_y.res
    THEN [res |-> acc \cup (first_y.res \ {Amp}), vs |-> first_y.vs]
    ELSE fn_production(g, Tail(ys),
                       [res |-> acc \cup (first_y.res \ {Amp}), vs |-> first_y.vs])

\* for y in production: ... else: first |= {'&'}   (r is [res |-> first, vs])
fn_production(g, ys, r) ==
    IF ys = <<>>
    THEN [res |-> r.res \cup {Amp}, vs |-> r.vs]
    ELSE IF Head(ys) \in r.vs.first_nonterminal
         THEN fn_production(g, Tail(ys),
                            [res |-> fn_seen(g, Head(ys), r.res), vs |-> r.vs])
         ELSE fn_symbol(g, ys, fn_seen(g, Head(ys), r.res),
                        first_nonterminal(g, Head(ys), r.vs))

\* for production in (p.split() for p in self.productions[symbol]): ...
fn_productions(g, ps, r) ==
    IF ps = {} THEN r
    ELSE fn_productions(g, ps \ {Pick(ps)}, fn_production(g, split(Pick(ps)), r))

\* visited -= {symbol}; return first
fn_return(symbol, r) ==
    [res |-> r.res, vs |-> [r.vs EXCEPT !.first_nonterminal = @ \ {symbol}]]

first_nonterminal(g, symbol, vs) ==
    IF symbol \in g.terminals THEN [res |-> {}, vs |-> vs]
    ELSE IF symbol = Amp THEN [res |-> {Amp}, vs |-> vs]
    ELSE fn_return(symbol,
            fn_productions(g, g.productions[symbol],
                [res |-> IF Amp \in g.productions[symbol] THEN {Amp} ELSE {},
                 vs |-> [vs EXCEPT !.first_nonterminal = @ \cup {symbol}]]))

\* ------------------------------------------------------------ CFG.follow

\* list.index(symbol), 0-based: the first position of symbol in production.
index(production, symbol) ==
    (CHOOSE i \in 1..Len(production) :
        /\ production[i] = symbol
        /\ \A j \in 1..(i - 1) : production[j] # symbol) - 1

\* piece[n:]
DropFirst(piece, n) == SubSeq(piece, n + 1, Len(piece))

RECURSIVE follow(_, _, _), follow_for(_, _, _, _, _), follow_while(_, _, _, _, _, _),
          follow_productions(_, _, _, _, _), follow_items(_, _, _, _)

\* ret |= (first - {'&'}); if '&' not in first: break     (f is self.first(y))
follow_symbol(g, symbol, k, ys, ret, f) ==
    IF Amp \notin f.res
    THEN [res |-> ret \cup (f.res \ {Amp}), vs |-> f.vs]
    ELSE follow_for(g, symbol, k, Tail(ys),
                    [res |-> ret \cup (f.res \ {Amp}), vs |-> f.vs])

\* for y in piece: ... else: if symbol != k and k not in visited: follow(k)
\* (r is [res |-> ret, vs])
follow_for(g, symbol, k, ys, r) ==
    IF ys = <<>>
    THEN IF symbol # k /\ k \notin r.vs.follow
         THEN union_into(r.res, follow(g, k, r.vs))
         ELSE r
    ELSE follow_symbol(g, symbol, k, ys, r.res, first(g, Head(ys), r.vs))

\* while symbol in piece: piece = piece[production.index(symbol) + 1:] ...
follow_while(g, symbol, k, production, piece, r) ==
    IF symbol \notin Range(piece) THEN r
    ELSE follow_while(g, symbol, k, production,
            DropFirst(piece, index(production, symbol) + 1),
            follow_for(g, symbol, k,
                       DropFirst(piece, index(production, symbol) + 1), r))

\* for production in (p.split() for p in v): piece = production ...
follow_productions(g, symbol, k, ps, r) ==
    IF ps = {} THEN r
    ELSE follow_productions(g, symbol, k, ps \ {Pick(ps)},
            follow_while(g, symbol, k, split(Pick(ps)), split(Pick(ps)), r))

\* for k, v in self.productions.items(): ...
follow_items(g, symbol, ks, r) ==
    IF ks = <<>> THEN r
    ELSE follow_items(g, symbol, Tail(ks),
            follow_productions(g, symbol, Head(ks), g.productions[Head(ks)], r))

\* visited -= {symbol}; return ret
follow_return(symbol, r) ==
    [res |-> r.res, vs |-> [r.vs EXCEPT !.follow = @ \ {symbol}]]

follow(g, symbol, vs) ==
    follow_return(symbol,
        follow_items(g, symbol, g.keys,
            [res |-> IF symbol = g.initial_symbol THEN {Dollar} ELSE {},
             vs |-> [vs EXCEPT !.follow = @ \cup {symbol}]]))

\* ------------------------------------------------------------ CFG.is_ll1

RECURSIVE left_recursion_scan(_, _, _), ambiguity_scan(_, _, _)

\* if x in self.first_nonterminal(x): return True     (r is first_nonterminal(x))
left_recursion_found(g, xs, r) ==
    IF Head(xs) \in r.res
    THEN [res |-> TRUE, vs |-> r.vs]
    ELSE left_recursion_scan(g, Tail(xs), r.vs)

\* for x in self.nonterminals: ... return False
left_recursion_scan(g, xs, vs) ==
    IF xs = <<>> THEN [res |-> FALSE, vs |-> vs]
    ELSE left_recursion_found(g, xs, first_nonterminal(g, Head(xs), vs))

has_left_recursion(g, vs) ==
    left_recursion_scan(g, SomeOrder(g.nonterminals), vs)

\* production[0] is the first character of the alternative's string.
is_factored(g) ==
    \A k \in DOMAIN g.productions :
        Cardinality(g.productions[k])
            = Cardinality({production[1] : production \in g.productions[k]})

\* if first & self.follow(x): return True     (fo is self.follow(x))
ambiguity_follow(g, xs, first_x, fo) ==
    IF first_x \cap fo.res # {}
    THEN [res |-> TRUE, vs |-> fo.vs]
    ELSE ambiguity_scan(g, Tail(xs), fo.vs)

\* first = self.first(x); if '&' not in first: continue     (f is self.first(x))
ambiguity_first(g, xs, f) ==
    IF Amp \notin f.res
    THEN ambiguity_scan(g, Tail(xs), f.vs)
    ELSE ambiguity_follow(g, xs, f.res, follow(g, Head(xs), f.vs))

\* for x in self.nonterminals: ... return False
ambiguity_scan(g, xs, vs) ==
    IF xs = <<>> THEN [res |-> FALSE, vs |-> vs]
    ELSE ambiguity_first(g, xs, first(g, Head(xs), vs))

has_ambiguity(g, vs) == ambiguity_scan(g, SomeOrder(g.nonterminals), vs)

\* ... and not has_ambiguity()
ll1_unambiguous(am) == [res |-> ~am.res, vs |-> am.vs]

\* ... and is_factored() and ...     (lr is has_left_recursion())
ll1_factored(g, lr) ==
    IF lr.res \/ ~is_factored(g)
    THEN [res |-> FALSE, vs |-> lr.vs]
    ELSE ll1_unambiguous(has_ambiguity(g, lr.vs))

\* not has_left_recursion() and is_factored() and not has_ambiguity()
is_ll1(g, vs) == ll1_factored(g, has_left_recursion(g, vs))

\* ------------------------------------------------------- CFG.parse_table

\* table[(nt, t)] = p for every t in ts; a later write replaces an earlier one.
put(table, nt, ts, p) == [cell \in {<<nt, t>> : t \in ts} |-> p] @@ table

RECURSIVE table_symbols(_, _, _, _, _), table_alternatives(_, _, _, _),
          table_items(_, _, _)

\* for t in (first - {'&'}): table[(nt, t)] = p; if '&' not in first: break
table_first(g, nt, p, ys, table, f) ==
    IF Amp \notin f.res
    THEN [res |-> put(table, nt, f.res \ {Amp}, p), vs |-> f.vs]
    ELSE table_symbols(g, nt, p, Tail(ys),
                       [res |-> put(table, nt, f.res \ {Amp}, p), vs |-> f.vs])

\* else: for t in self.follow(nt): table[(nt, t)] = p
table_follow(nt, p, table, fo) ==
    [res |-> put(table, nt, fo.res, p), vs |-> fo.vs]

\* for symbol in p.split(): ...     (r is [res |-> table, vs])
table_symbols(g, nt, p, ys, r) ==
    IF ys = <<>>
    THEN table_follow(nt, p, r.res, follow(g, nt, r.vs))
    ELSE table_first(g, nt, p, ys, r.res, first(g, Head(ys), r.vs))

\* the alternatives of nt, in the order ps
table_alternatives(g, nt, ps, r) ==
    IF ps = <<>> THEN r
    ELSE table_alternatives(g, nt, Tail(ps),
            table_symbols(g, nt, Head(ps), split(Head(ps)), r))

\* for nt, p in ((x, y) for x, v in self.productions.items() for y in v):
\* the keys in dict order, the alternatives of each key in any order a set may
\* be iterated in. outcomes is the set of [res, vs] reached so far.
table_items(g, ks, outcomes) ==
    IF ks = <<>> THEN outcomes
    ELSE table_items(g, Tail(ks),
            {table_alternatives(g, Head(ks), ps, r) :
                r \in outcomes, ps \in Orders(g.productions[Head(ks)])})

\* parse_table(): every table ([res, vs]) the call may return.
parse_table(g, vs) == table_items(g, g.keys, {[res |-> <<>>, vs |-> vs]})

\* ------------------------------------------------------------- CFG.parse

RECURSIVE Reverse(_)
Reverse(s) == IF s = <<>> THEN <<>> ELSE Append(Reverse(Tail(s)), Head(s))

\* stack.pop(): what is left of the stack
popped(stk) == SubSeq(stk, 1, Len(stk) - 1)

\* One pass of the while loop up to the next yield, break or raise; a popped
\* '&' continues the loop without yielding.
RECURSIVE parse_step(_, _, _, _)
parse_step(g, tbl, sent, stk) ==
    LET front == sent[1]
        top == stk[Len(stk)]
    IN IF top = Amp THEN parse_step(g, tbl, sent, popped(stk))
       ELSE IF top = Dollar /\ front = Dollar
       THEN [pc |-> "accepted", sentence |-> sent, stack |-> popped(stk)]
       ELSE IF top \in g.terminals
       THEN IF top # front
            THEN [pc |-> "mismatch", sentence |-> sent, stack |-> popped(stk)]
            ELSE [pc |-> "parsing", sentence |-> Tail(sent), stack |-> popped(stk)]
       ELSE IF <<top, front>> \in DOMAIN tbl /\ tbl[<<top, front>>] # <<>>
            THEN [pc |-> "parsing", sentence |-> sent,
                  stack |-> IF tbl[<<top, front>>] # Amp
                            THEN popped(stk) \o Reverse(split(tbl[<<top, front>>]))
                            ELSE popped(stk)]
            ELSE [pc |-> "notable", sentence |-> sent, stack |-> popped(stk)]

\* The snapshot a yield hands out: sentence[:-1], stack[1:]
snapshot(sent, stk) == <<SubSeq(sent, 1, Len(sent) - 1), Tail(stk)>>

\* ------------------------------------------------- CFG.without_infertile

\* set(fertile(ni))
fertile(g, ni) ==
    ni \cup {symbol \in DOMAIN g.productions :
                \E p \in g.productions[symbol] :
                    Range(split(p)) \subseteq (ni \cup g.terminals \cup {Amp})}

\* A loop that stops after its first round.
fertile_loop_once(g, ni, next_ni) == next_ni

\* while ni != next_ni: ni, next_ni = set(next_ni), set(fertile(next_ni))
RECURSIVE fertile_loop(_, _, _)
fertile_loop(g, ni, next_ni) ==
    IF ni = next_ni THEN ni ELSE fertile_loop(g, next_ni, fertile(g, next_ni))

\* ni, next_ni = set(), set(fertile(set())), and the loop
fertile_nonterminals(g) == fertile_loop(g, {}, fertile(g, {}))

\* self.create(...) over the symbols of fertile = ni | self.terminals | {'&'}
keep_fertile(g, allowed) ==
    LET kept(k) == k \in allowed IN
    create(g.initial_symbol,
           SelectSeq(g.keys, kept),
           [symbol \in {k \in DOMAIN g.productions : kept(k)} |->
               {production \in g.productions[symbol] :
                   \A v \in Range(split(production)) : v \in allowed}])

without_infertile(g) ==
    keep_fertile(g, fertile_nonterminals(g) \cup g.terminals \cup {Amp})

\* ------------------------------------------------------ CFG.epsilon_free

\* s.replace('  ', ' '): non-overlapping, left to right
RECURSIVE replace_double_space(_)
replace_double_space(s) ==
    IF Len(s) < 2 THEN s
    ELSE IF s[1] = " " /\ s[2] = " "
         THEN <<" ">> \o replace_double_space(SubSeq(s, 3, Len(s)))
         ELSE <<s[1]>> \o replace_double_space(Tail(s))

\* s.strip()
RECURSIVE lstrip(_), rstrip(_)
lstrip(s) == IF s # <<>> /\ s[1] = " " THEN lstrip(Tail(s)) ELSE s
rstrip(s) ==
    IF s # <<>> /\ s[Len(s)] = " " THEN rstrip(SubSeq(s, 1, Len(s) - 1)) ELSE s
strip(s) == rstrip(lstrip(s))

\* (destiny[:i] + destiny[i:].replace(char, '', 1)).replace('  ', ' ').strip()
\* with char = destiny[i]; i is 1-based here.
new_prod(destiny, i) ==
    strip(replace_double_space(
        SubSeq(destiny, 1, i - 1) \o SubSeq(destiny, i + 1, Len(destiny))))

RECURSIVE ef_chars(_, _, _, _, _, _), ef_worklist(_, _, _), ef_items(_, _)

\* if '&' in self.first(char): prod_.append(new_prod);
\*                             self.productions[symbol] |= {new_prod}
\* (f is self.first(char); g is self, mutated as the loop goes)
ef_char(g, symbol, destiny, i, prod_, f) ==
    IF Amp \in f.res
    THEN ef_chars([g EXCEPT !.productions[symbol] = @ \cup {new_prod(destiny, i)}],
                  symbol, destiny, i + 1, Append(prod_, new_prod(destiny, i)), f.vs)
    ELSE ef_chars(g, symbol, destiny, i + 1, prod_, f.vs)

\* for i, char in enumerate(destiny): if char == ' ': continue ...
ef_chars(g, symbol, destiny, i, prod_, vs) ==
    IF i > Len(destiny) THEN [g |-> g, prod_ |-> prod_, vs |-> vs]
    ELSE IF destiny[i] = " " THEN ef_chars(g, symbol, destiny, i + 1, prod_, vs)
    ELSE ef_char(g, symbol, destiny, i, prod_, first(g, <<destiny[i]>>, vs))

\* for destiny in prod_: ...   (prod_ grows while it is iterated;
\* r is [g, prod_, vs])
ef_worklist(symbol, j, r) ==
    IF j > Len(r.prod_) THEN [g |-> r.g, vs |-> r.vs]
    ELSE ef_worklist(symbol, j + 1,
                     ef_chars(r.g, symbol, r.prod_[j], 1, r.prod_, r.vs))

\* for symbol, productions in self.productions.items(): prod_ = list(productions)
\* with list(productions) in any order; outcomes is the set of [g, vs] reached.
ef_items(ks, outcomes) ==
    IF ks = <<>> THEN outcomes
    ELSE ef_items(Tail(ks),
            UNION {{ef_worklist(Head(ks), 1, [g |-> r.g, prod_ |-> ps, vs |-> r.vs]) :
                        ps \in Orders(r.g.productions[Head(ks)])} : r \in outcomes})

\* The second loop: '&' leaves every nonterminal but the initial one, '' all.
ef_strip(g) ==
    [g EXCEPT !.productions =
        [symbol \in DOMAIN g.productions |->
            (IF symbol # g.initial_symbol
             THEN g.productions[symbol] \ {Amp}
             ELSE g.productions[symbol]) \ {<<>>}]]

\* dict[key] = value: a new key goes last, an old one keeps its place.
setitem(g, key, value) ==
    [g EXCEPT !.productions = (key :> value) @@ g.productions,
              !.keys = IF key \in Range(g.keys) THEN g.keys ELSE Append(g.keys, key)]

\* return self.create(initial_symbol=initial, productions={... if len(p) != 0})
\* with self as it is left (self), the grammar returned (out), the visited sets
ef_create(g, initial, vs) ==
    LET kept(k) == g.productions[k] # {} IN
    [self |-> g,
     out |-> create(initial,
                    SelectSeq(g.keys, kept),
                    [k \in {x \in DOMAIN g.productions : kept(x)} |-> g.productions[k]]),
     vs |-> vs]

\* if '&' in self.first(initial): ...     (f is self.first(initial))
ef_initial(g, f) ==
    IF Amp \in f.res
    THEN ef_create(setitem([g EXCEPT !.productions[g.initial_symbol] = @ \ {Amp}],
                           g.initial_symbol \o sPrime, {g.initial_symbol, Amp}),
                   g.initial_symbol \o sPrime, f.vs)
    ELSE ef_create(g, g.initial_symbol, f.vs)

\* The rest of epsilon_free() once the second loop left self as g.
ef_finish(g, vs) == ef_initial(g, first(g, g.initial_symbol, vs))

\* epsilon_free(): every outcome of the call, each with self after the call
\* (self), the grammar returned (out) and the visited sets (vs).
epsilon_free(g, vs) ==
    {ef_finish(ef_strip(l1.g), l1.vs) : l1 \in ef_items(g.keys, {[g |-> g, vs |-> vs]})}

\* ================================================================ state

VARIABLES
    g,          \* the CFG object the calls are made on (self)
    visited,    \* the three default-argument sets: first, first_nonterminal, follow
    ret,        \* the value the last call returned (or the last snapshot yielded)
    pc,         \* the parse generator: idle, parsing, accepted, mismatch, notable, overflow
    sentence,   \* parse(): the remaining input, ending in '$'
    stack,      \* parse(): the stack, its top last
    table       \* parse(): the parse table built when the generator starts

vars == <<g, visited, ret, pc, sentence, stack, table>>

\* The alternatives the input grammars are built from.
AltPool ==
    {Amp, sa, sab, sA,
     <<"a", " ", "S">>, <<"S", " ", "a">>, <<"A", " ", "a", " ", "A">>}

AltSets == {alts \in SUBSET AltPool : alts # {} /\ Cardinality(alts) < MaxAlts}

\* The grammars handed to CFG.create: S is the initial symbol, A a second
\* nonterminal (reachable or not); each has at least one alternative.
Grammars ==
    {create(sS, <<sS, sA>>, productions) :
        productions \in {ps \in [{sS, sA} -> AltSets] :
                            Cardinality(ps[sS]) + Cardinality(ps[sA]) <= MaxAlts}}

\* The tokens of the input sentences: parse() splits whatever string it is
\* given, so a token may be a terminal, a word the grammar does not know, or
\* the text of the end marker. The sentences handed to parse().
Tokens == {sa, sab, Dollar}
RECURSIVE SentencesUpTo(_)
SentencesUpTo(n) ==
    IF n = 0 THEN {<<>>}
    ELSE LET shorter == SentencesUpTo(n - 1) IN
         shorter \cup {Append(s, t) : s \in shorter, t \in Tokens}
Inputs == SentencesUpTo(MaxInputLen)

NoRet == [op |-> "none", arg |-> <<>>, val |-> <<>>]
Idle == pc = "idle" /\ ret = NoRet

Init ==
    /\ g \in Grammars
    /\ visited = NoVisited
    /\ ret = NoRet
    /\ pc = "idle"
    /\ sentence = <<>>
    /\ stack = <<>>
    /\ table = <<>>

\* The sentences first() is called on: every symbol and every alternative.
Symbols(gr) == gr.nonterminals \cup gr.terminals
FirstArgs(gr) == Symbols(gr) \cup {Amp} \cup UNION {gr.productions[k] : k \in DOMAIN gr.productions}

CallFirst ==
    /\ Idle
    /\ \E s \in FirstArgs(g) : \E r \in {first(g, s, visited)} :
        /\ ret' = [op |-> "first", arg |-> s, val |-> r.res]
        /\ visited' = r.vs
    /\ UNCHANGED <<g, pc, sentence, stack, table>>

CallFirstNonterminal ==
    /\ Idle
    /\ \E s \in Symbols(g) \cup {Amp} : \E r \in {first_nonterminal(g, s, visited)} :
        /\ ret' = [op |-> "first_nonterminal", arg |-> s, val |-> r.res]
        /\ visited' = r.vs
    /\ UNCHANGED <<g, pc, sentence, stack, table>>

CallFollow ==
    /\ Idle
    /\ \E s \in g.nonterminals : \E r \in {follow(g, s, visited)} :
        /\ ret' = [op |-> "follow", arg |-> s, val |-> r.res]
        /\ visited' = r.vs
    /\ UNCHANGED <<g, pc, sentence, stack, table>>

CallIsLL1 ==
    /\ Idle
    /\ \E r \in {is_ll1(g, visited)} :
        /\ ret' = [op |-> "is_ll1", arg |-> <<>>, val |-> r.res]
        /\ visited' = r.vs
    /\ UNCHANGED <<g, pc, sentence, stack, table>>

CallParseTable ==
    /\ Idle
    /\ \E r \in parse_table(g, visited) :
        /\ ret' = [op |-> "parse_table", arg |-> <<>>, val |-> r.res]
        /\ visited' = r.vs
    /\ UNCHANGED <<g, pc, sentence, stack, table>>

\* The first next() of parse(sentence): the table is built, the first
\* snapshot is yielded.
ParseStart ==
    /\ Idle
    /\ \E r \in parse_table(g, visited) :
        /\ table' = r.res
        /\ visited' = r.vs
        /\ \E input \in Inputs :
            /\ sentence' = split(join(input)) \o <<Dollar>>
            /\ stack' = <<Dollar, g.initial_symbol>>
            /\ ret' = [op |-> "parse", arg |-> input,
                       val |-> snapshot(sentence', stack')]
    /\ pc' = "parsing"
    /\ UNCHANGED g

\* A later next(): the loop runs to its next yield, to the break or to a raise.
ParseStep ==
    /\ pc = "parsing"
    /\ \E r \in {parse_step(g, table, sentence, stack)} :
        IF Len(r.stack) > MaxStack
        THEN /\ pc' = "overflow"
             /\ UNCHANGED <<sentence, stack, ret>>
        ELSE /\ pc' = r.pc
             /\ sentence' = r.sentence
             /\ stack' = r.stack
             /\ ret' = [ret EXCEPT !.val = IF r.pc = "parsing"
                                           THEN snapshot(r.sentence, r.stack)
                                           ELSE @]
    /\ UNCHANGED <<g, visited, table>>

CallWithoutInfertile ==
    /\ Idle
    /\ ret' = [op |-> "without_infertile", arg |-> g, val |-> without_infertile(g)]
    /\ UNCHANGED <<g, visited, pc, sentence, stack, table>>

CallEpsilonFree ==
    /\ Idle
    /\ \E r \in epsilon_free(g, visited) :
        /\ g' = r.self
        /\ ret' = [op |-> "epsilon_free", arg |-> g, val |-> r.out]
        /\ visited' = r.vs
    /\ UNCHANGED <<pc, sentence, stack, table>>

\* The caller lets go of the returned value, or of the finished generator.
Drop ==
    /\ \/ pc = "idle" /\ ret # NoRet
       \/ pc \in {"accepted", "mismatch", "notable", "overflow"}
    /\ ret' = NoRet
    /\ pc' = "idle"
    /\ sentence' = <<>>
    /\ stack' = <<>>
    /\ table' = <<>>
    /\ UNCHANGED <<g, visited>>

Next ==
    \/ CallFirst
    \/ CallFirstNonterminal
    \/ CallFollow
    \/ CallIsLL1
    \/ CallParseTable
    \/ ParseStart
    \/ ParseStep
    \/ CallWithoutInfertile
    \/ CallEpsilonFree
    \/ Drop

Spec == Init /\ [][Next]_vars

\* parse() is a generator: its caller iterates it to the end.
FairSpec == Spec /\ WF_vars(ParseStep)

\* ====================================================== reference notions
\* What the claims speak of, defined from the grammar alone (by least fixed
\* points over derivations), independently of the routines above.

\* The data-model invariants of a grammar value.
WellFormed(gr) ==
    /\ gr.nonterminals = DOMAIN gr.productions
    /\ gr.nonterminals = Range(gr.keys)
    /\ gr.initial_symbol \in gr.nonterminals
    /\ gr.nonterminals \cap gr.terminals = {}
    /\ Amp \notin Symbols(gr) /\ Dollar \notin Symbols(gr)
    /\ \A k \in DOMAIN gr.productions :
        /\ gr.productions[k] # {}
        /\ \A p \in gr.productions[k] :
            /\ split(p) # <<>>
            /\ Range(split(p)) \subseteq Symbols(gr) \cup {Amp}
    /\ gr.terminals \subseteq SymbolsOf(gr.productions, DOMAIN gr.productions)

\* The nonterminals that derive the empty string.
NullableStep(gr, N) ==
    N \cup {x \in gr.nonterminals :
              \E p \in gr.productions[x] :
                  \A y \in Range(split(p)) : y = Amp \/ y \in N}
RECURSIVE NullableFrom(_, _)
NullableFrom(gr, N) ==
    IF NullableStep(gr, N) = N THEN N ELSE NullableFrom(gr, NullableStep(gr, N))
Nullable(gr) == NullableFrom(gr, {})

\* The terminals that begin a string derived from the symbol sequence ys,
\* given those (F) that begin strings derived from each nonterminal.
RECURSIVE SeqFirst(_, _, _, _)
SeqFirst(gr, F, N, ys) ==
    IF ys = <<>> THEN {}
    ELSE LET y == Head(ys) IN
         IF y = Amp THEN SeqFirst(gr, F, N, Tail(ys))
         ELSE IF y \in gr.nonterminals
              THEN F[y] \cup (IF y \in N THEN SeqFirst(gr, F, N, Tail(ys)) ELSE {})
              ELSE {y}
SeqNullable(gr, N, ys) == \A y \in Range(ys) : y = Amp \/ y \in N

FirstStep(gr, F) ==
    [x \in gr.nonterminals |->
        F[x] \cup UNION {SeqFirst(gr, F, Nullable(gr), split(p)) : p \in gr.productions[x]}]
RECURSIVE FirstFrom(_, _)
FirstFrom(gr, F) ==
    IF FirstStep(gr, F) = F THEN F ELSE FirstFrom(gr, FirstStep(gr, F))
FirstTerminals(gr) == FirstFrom(gr, [x \in gr.nonterminals |-> {}])

\* FIRST(x): the terminals that begin a string derived from x, and '&' iff x
\* derives the empty string.
TrueFirst(gr, x) ==
    FirstTerminals(gr)[x] \cup (IF x \in Nullable(gr) THEN {Amp} ELSE {})

\* The nonterminals that occur in a derivation from the initial symbol.
ReachStep(gr, R) ==
    R \cup {y \in gr.nonterminals :
              \E x \in R : \E p \in gr.productions[x] : y \in Range(split(p))}
RECURSIVE ReachFrom(_, _)
ReachFrom(gr, R) ==
    IF ReachStep(gr, R) = R THEN R ELSE ReachFrom(gr, ReachStep(gr, R))
Reachable(gr) == ReachFrom(gr, {gr.initial_symbol})

\* FOLLOW(x): the terminals t such that a derivation from the initial symbol
\* contains x immediately followed by a subderivation starting with t
\* (and '$' where x can end such a derivation).
FollowStep(gr, Fo) ==
    [x \in gr.nonterminals |->
        Fo[x] \cup UNION {UNION {UNION {
            LET ys == split(p)
                beta == SubSeq(ys, i + 1, Len(ys))
            IN IF ys[i] # x THEN {}
               ELSE SeqFirst(gr, FirstTerminals(gr), Nullable(gr), beta)
                    \cup (IF SeqNullable(gr, Nullable(gr), beta) THEN Fo[k] ELSE {})
            : i \in 1..Len(split(p))} : p \in gr.productions[k]} : k \in Reachable(gr)}]
RECURSIVE FollowFrom(_, _)
FollowFrom(gr, Fo) ==
    IF FollowStep(gr, Fo) = Fo THEN Fo ELSE FollowFrom(gr, FollowStep(gr, Fo))
TrueFollow(gr, x) ==
    FollowFrom(gr, [y \in gr.nonterminals |->
                      IF y = gr.initial_symbol THEN {Dollar} ELSE {}])[x]

\* The fertile nonterminals: the least set that holds every nonterminal with
\* an alternative made of its members, terminals and '&' only, which is the
\* intersection of all the sets closed under that rule.
FertileClosed(gr, C) ==
    \A y \in gr.nonterminals :
        (\E p \in gr.productions[y] :
            Range(split(p)) \subseteq C \cup gr.terminals \cup {Amp}) => y \in C
TrueFertile(gr) ==
    {x \in gr.nonterminals :
        \A C \in SUBSET gr.nonterminals : FertileClosed(gr, C) => x \in C}

\* The sentences of at most MaxInputLen tokens that each nonterminal derives.
Concat(X, Y) == {x \o y : x \in X, y \in Y} \cap Inputs
RECURSIVE SeqLang(_, _, _)
SeqLang(gr, L, ys) ==
    IF ys = <<>> THEN {<<>>}
    ELSE LET y == Head(ys)
             here == IF y = Amp THEN {<<>>}
                     ELSE IF y \in gr.nonterminals THEN L[y]
                     ELSE {<<y>>} \cap Inputs
         IN Concat(here, SeqLang(gr, L, Tail(ys)))
LangStep(gr, L) ==
    [x \in gr.nonterminals |->
        L[x] \cup UNION {SeqLang(gr, L, split(p)) : p \in gr.productions[x]}]
RECURSIVE LangFrom(_, _)
LangFrom(gr, L) ==
    IF LangStep(gr, L) = L THEN L ELSE LangFrom(gr, LangStep(gr, L))
\* The sentences of at most MaxInputLen tokens in the language of gr.
Language(gr) == LangFrom(gr, [x \in gr.nonterminals |-> {}])[gr.initial_symbol]

\* ================================================================ claims

ParseFailed == {"mismatch", "notable"}
Transforms == {"without_infertile", "epsilon_free"}

\* A parse() of the sentence ret.arg is under way or over, on a well-formed
\* grammar that is_ll1() accepts.
ParsingLL1 ==
    /\ ret.op = "parse"
    /\ WellFormed(g)
    /\ is_ll1(g, NoVisited).res

\* C1: on a grammar for which is_ll1() is true, the parse of a sentence the
\* grammar generates never ends in Mismatch or NoTableEntry (nor in an
\* unbounded run of expansions); it runs to the accept state.
C1_AcceptsGenerated ==
    (ParsingLL1 /\ ret.arg \in Language(g)) => pc \notin (ParseFailed \cup {"overflow"})

\* C2: on a grammar for which is_ll1() is true, the parse of a token sequence
\* that is not in the language never reaches the accept state, never runs into
\* an unbounded run of expansions, and ends in Mismatch or NoTableEntry.
ParsingNonMember == ParsingLL1 /\ ret.arg \notin Language(g)
C2_RejectsNonMembers ==
    /\ [](ParsingNonMember => pc \notin {"accepted", "overflow"})
    /\ (ParsingNonMember ~> (pc \in ParseFailed))

\* C3: FOLLOW soundness: every terminal of follow(x) follows x in some
\* derivation from the initial symbol.
C3_FollowSound ==
    (ret.op = "follow" /\ WellFormed(g)) =>
        (ret.val \cap g.terminals) \subseteq TrueFollow(g, ret.arg)

\* C4: for every nonterminal x of a well-formed grammar, first(x) is exactly
\* FIRST(x).
C4_FirstExact ==
    (ret.op = "first" /\ WellFormed(g) /\ ret.arg \in g.nonterminals) =>
        ret.val = TrueFirst(g, ret.arg)

\* C5: is_ll1() is true iff no nonterminal x is in first_nonterminal(x), the
\* alternatives of every nonterminal have pairwise distinct leading symbols
\* (first whitespace-delimited symbols), and first(x) and follow(x) are
\* disjoint for every nonterminal x with '&' in first(x).
NoLeftRecursion(gr) ==
    \A x \in gr.nonterminals : x \notin first_nonterminal(gr, x, NoVisited).res
FactoredBySymbol(gr) ==
    \A k \in DOMAIN gr.productions :
        Cardinality(gr.productions[k])
            = Cardinality({Head(split(p)) : p \in gr.productions[k]})
NoNullableAmbiguity(gr) ==
    \A x \in gr.nonterminals :
        Amp \in first(gr, x, NoVisited).res =>
            first(gr, x, NoVisited).res \cap follow(gr, x, NoVisited).res = {}
C5_IsLL1Iff ==
    (ret.op = "is_ll1" /\ WellFormed(g)) =>
        (ret.val <=> (/\ NoLeftRecursion(g)
                      /\ FactoredBySymbol(g)
                      /\ NoNullableAmbiguity(g)))

\* C6: when the initial symbol S of a well-formed grammar has '&' in
\* first(S) before the transform, epsilon_free() returns a grammar whose
\* initial symbol is S' with exactly the two alternatives S and '&'.
C6_FreshInitial ==
    (/\ ret.op = "epsilon_free"
     /\ WellFormed(ret.arg)
     /\ Amp \in first(ret.arg, ret.arg.initial_symbol, NoVisited).res) =>
        LET fresh == ret.arg.initial_symbol \o sPrime IN
        /\ ret.val.initial_symbol = fresh
        /\ fresh \in DOMAIN ret.val.productions
        /\ ret.val.productions[fresh] = {ret.arg.initial_symbol, Amp}

\* C7: without_infertile() keeps exactly the fertile nonterminals and exactly
\* the alternatives made of fertile nonterminals, terminals and '&'; every
\* nonterminal kept has an alternative of terminals, '&' and kept
\* nonterminals only.
C7_InfertileRemoved ==
    (ret.op = "without_infertile" /\ WellFormed(ret.arg)) =>
        LET F == TrueFertile(ret.arg)
            ok(p) == Range(split(p)) \subseteq F \cup ret.arg.terminals \cup {Amp}
        IN /\ ret.val.nonterminals = F
           /\ DOMAIN ret.val.productions = F
           /\ \A x \in F : ret.val.productions[x] = {p \in ret.arg.productions[x] : ok(p)}
           /\ \A x \in F :
                \E p \in ret.val.productions[x] :
                    Range(split(p)) \subseteq
                        ret.val.terminals \cup ret.val.nonterminals \cup {Amp}

\* without_infertile() kept a nonterminal that is fertile only through
\* another one (found in the second round of the loop, not in the first).
C7_Witness ==
    /\ ret.op = "without_infertile"
    /\ WellFormed(ret.arg)
    /\ sS \in ret.val.nonterminals
    /\ \A p \in ret.arg.productions[sS] : Range(split(p)) \cap ret.arg.nonterminals # {}

\* C8: the grammar a transform returns for a well-formed grammar has its
\* initial symbol among its nonterminals, with a non-empty alternative set.
C8_InitialKept ==
    (ret.op \in Transforms /\ WellFormed(ret.arg)) =>
        /\ ret.val.initial_symbol \in ret.val.nonterminals
        /\ ret.val.initial_symbol \in DOMAIN ret.val.productions
        /\ ret.val.productions[ret.val.initial_symbol] # {}

\* C9: a transform leaves the grammar it is called on as it was: the same
\* keys, the same alternative sets.
C9_InputUnchanged ==
    (ret.op \in Transforms) =>
        /\ g.keys = ret.arg.keys
        /\ g.productions = ret.arg.productions

\* C10: between top-level calls the three shared visited sets are empty.
C10_GuardsEmpty ==
    /\ visited.first = {}
    /\ visited.first_nonterminal = {}
    /\ visited.follow = {}

\* A call returned whose recursion met its own guard: first_nonterminal(x)
\* found x again (and follow / first returned from a left-recursive grammar).
C10_Witness ==
    /\ ret.op \in {"first_nonterminal", "follow", "first"}
    /\ ret.arg \in g.nonterminals
    /\ ret.arg \in first_nonterminal(g, ret.arg, NoVisited).res
    /\ WellFormed(g)
    /\ C10_GuardsEmpty

====
